---- MODULE Spec2Model ----
(***************************************************************************)
(* prayterm (src/src/lib.rs): a terminal Session (PrayTerm) over the       *)
(* crossterm driver, and the background worker of prepare_thread that      *)
(* forwards input events over an mpsc channel.                             *)
(*                                                                         *)
(* The terminal driver is modelled by what the Session observes of it: the *)
(* raw-mode switch, the output sink (commands queued but not yet flushed,  *)
(* and the commands the terminal has received), and the input side (poll,  *)
(* read).  Every driver call may fail; a failing call has no effect and    *)
(* its error is propagated by `?` (Session) or `expect` (worker).          *)
(***************************************************************************)
EXTENDS Integers, Sequences, FiniteSets, TLC

VARIABLES
  raw,      \* the terminal's raw-mode state (process-wide)
  pending,  \* the sink: commands queued and not yet flushed
  trace,    \* the driver calls the terminal has performed, in order
  sess,     \* the caller's PrayTerm value: [has, k, w, h]
  last,     \* the caller's latest call: [op, ok, arg, calls, prev]
  preRaw,   \* raw-mode state just before the latest call of new
  newCalls, \* the driver calls made by the new that constructed sess
  before,   \* pending and trace just before the latest call
  nops,     \* number of Session calls the caller has made
  halted,   \* the caller has unwrapped an Err and stopped
  script,   \* the calls made so far by the scripted caller (tests::test_a)
  worker,   \* the thread of prepare_thread: [pc, ev, cause]
  evq,      \* the driver's input: events that arrived and were not yet read
  chan,     \* the mpsc channel: messages sent and not yet received
  rx,       \* the Receiver returned to the caller: none, held, dropped
  tx,       \* the Sender returned to the caller: none, held, dropped
  got,      \* the messages the caller received on rx, in order
  rlog,     \* the events the worker read from the driver, in order
  plog,     \* the results of the worker's polls (TRUE: an event is ready)
  slog,     \* the events the worker sent, each with the polls done by then
  arrived,  \* number of input events that arrived at the driver
  csent,    \* number of sends the caller made on its Sender
  lastRecv  \* outcome of the caller's latest try_recv

termVars == <<raw, pending, trace>>
callVars == <<last, before, nops, halted>>
feedVars == <<worker, evq, chan, rx, tx, got, rlog, plog, slog, arrived, csent,
              lastRecv>>
vars == <<raw, pending, trace, sess, last, preRaw, newCalls, before, nops,
          halted, script, feedVars>>

----------------------------------------------------------------------------
(* Bounds of the model *)

MaxOps == 3      \* calls made by the caller's thread
MaxFlag == 7     \* new is called with k in 0..MaxFlag
MaxStyle == 7    \* wr is called with st in 0..MaxStyle
MaxWr == 1       \* wr calls made by the scripted caller
MaxEvents == 2   \* input events that arrive at the driver
MaxPolls == 3    \* polls of the worker that return Ok
MaxCallerSends == 1  \* sends the caller makes on the Sender it was returned

(* Program constants *)

AltMask == 5     \* k & 5
MouseMask == 6   \* k & 6
StyleMask == 2   \* st & 2

Flags == 0..MaxFlag
StyleBits == 0..MaxStyle
Sizes == {<<80, 50>>}
Attributes == {"Bold", "Italic"}
Events == {"key", "mouse"}

----------------------------------------------------------------------------
(* u16 bit operations *)

RECURSIVE BitAnd(_, _)
BitAnd(a, b) ==
  IF a = 0 \/ b = 0 THEN 0
  ELSE (a % 2) * (b % 2) + 2 * BitAnd(a \div 2, b \div 2)

RECURSIVE BitXor(_, _)
BitXor(a, b) ==
  IF a = 0 /\ b = 0 THEN 0
  ELSE (((a % 2) + (b % 2)) % 2) + 2 * BitXor(a \div 2, b \div 2)

----------------------------------------------------------------------------
(* Colors: a style::Color passes through nop unchanged, the crate's Rgb    *)
(* struct is converted to style::Color::Rgb.                               *)

NamedColor(c) == <<"Color", c>>
RgbStruct(r, g, b) == <<"Rgb", r, g, b>>

nop(c) ==
  IF c[1] = "Rgb" THEN <<"Color", "Rgb", c[2], c[3], c[4]>> ELSE c

----------------------------------------------------------------------------
(* Steps of a handler: one driver call each.  queue! appends each command  *)
(* to the sink, execute! does the same and then flushes.                   *)

QueueStep(cmd) == <<"queue", cmd>>
FlushStep == <<"flush">>

RECURSIVE Queue(_)
Queue(cmds) ==
  IF cmds = <<>> THEN <<>>
  ELSE <<QueueStep(Head(cmds))>> \o Queue(Tail(cmds))

Execute(cmds) == Queue(cmds) \o <<FlushStep>>

(* faulty variant: only bit 0 selects the alternate screen *)
AltSelectedLowBit(k) == k % 2 # 0

AltSelected(k) == BitAnd(k, AltMask) # 0
MouseSelected(k) == BitAnd(k, MouseMask) # 0

(* faulty variant: new switches raw mode on after the other modes *)
NewStepsRawLast(k) ==
  <<  <<"size">>  >>
  \o (IF AltSelected(k) THEN Execute(<< <<"EnterAlternateScreen">> >>) ELSE <<>>)
  \o (IF MouseSelected(k) THEN Execute(<< <<"EnableMouseCapture">> >>) ELSE <<>>)
  \o <<  <<"enable_raw_mode">>  >>

NewSteps(k) ==
  <<  <<"size">>, <<"enable_raw_mode">>  >>
  \o (IF AltSelected(k) THEN Execute(<< <<"EnterAlternateScreen">> >>) ELSE <<>>)
  \o (IF MouseSelected(k) THEN Execute(<< <<"EnableMouseCapture">> >>) ELSE <<>>)

(* faulty variant: begin clears the screen before it hides the cursor *)
BeginStepsClearFirst ==
  Execute(<< <<"SetCursorStyle", "DefaultUserShape">>,
             <<"Clear", "All">>,
             <<"Hide">> >>)

BeginSteps ==
  Execute(<< <<"SetCursorStyle", "DefaultUserShape">>,
             <<"Hide">>,
             <<"Clear", "All">> >>)

(* faulty variant: fin forgets to leave raw mode *)
FinStepsKeepRaw(k) ==
  Execute(<< <<"SetCursorStyle", "BlinkingUnderScore">>, <<"Show">> >>)
  \o (IF MouseSelected(k) THEN Execute(<< <<"DisableMouseCapture">> >>) ELSE <<>>)
  \o (IF AltSelected(k) THEN Execute(<< <<"LeaveAlternateScreen">> >>) ELSE <<>>)

(* faulty variant: fin tears down in the order of new, not in its reverse *)
FinStepsSameOrder(k) ==
  Execute(<< <<"SetCursorStyle", "BlinkingUnderScore">>, <<"Show">> >>)
  \o (IF AltSelected(k) THEN Execute(<< <<"LeaveAlternateScreen">> >>) ELSE <<>>)
  \o (IF MouseSelected(k) THEN Execute(<< <<"DisableMouseCapture">> >>) ELSE <<>>)
  \o << <<"disable_raw_mode">> >>

FinSteps(k) ==
  Execute(<< <<"SetCursorStyle", "BlinkingUnderScore">>, <<"Show">> >>)
  \o (IF MouseSelected(k) THEN Execute(<< <<"DisableMouseCapture">> >>) ELSE <<>>)
  \o (IF AltSelected(k) THEN Execute(<< <<"LeaveAlternateScreen">> >>) ELSE <<>>)
  \o << <<"disable_raw_mode">> >>

(* faulty variant: style flushes *)
StyleStepsFlush(s) == Execute(<< <<"SetAttribute", s>> >>)

StyleSteps(s) == Queue(<< <<"SetAttribute", s>> >>)

(* vec![Bold, Italic], enumerate() counts from 0 *)
styles == <<"Bold", "Italic">>

(* faulty variant: the check reads bit i of st (1 << i) *)
StyleSelectedShift(st, i) == (st \div (2 ^ i)) % 2 = 1

(* faulty variant: the check reads st unmasked *)
StyleSelectedUnmasked(st, i) == BitXor(st, i) # 0

(* st & 2^(i as u16) != 0: in Rust & binds tighter than ^, and ^ tighter   *)
(* than !=, so this is ((st & 2) ^ i) != 0.                                 *)
StyleSelected(st, i) == BitXor(BitAnd(st, StyleMask), i) # 0

RECURSIVE StyleLoop(_, _)
StyleLoop(st, i) ==
  IF i >= Len(styles) THEN <<>>
  ELSE (IF StyleSelected(st, i) THEN StyleSteps(styles[i + 1]) ELSE <<>>)
       \o StyleLoop(st, i + 1)

(* faulty variant: wr does not flush *)
WrStepsNoFlush(x, y, st, bg, fg, msg) ==
  StyleLoop(st, 0)
  \o Queue(<< <<"MoveTo", x, y>>,
              <<"SetBackgroundColor", nop(bg)>>,
              <<"SetForegroundColor", nop(fg)>>,
              <<"Print", msg>>,
              <<"ResetColor">> >>)

WrSteps(x, y, st, bg, fg, msg) ==
  StyleLoop(st, 0)
  \o Queue(<< <<"MoveTo", x, y>>,
              <<"SetBackgroundColor", nop(bg)>>,
              <<"SetForegroundColor", nop(fg)>>,
              <<"Print", msg>>,
              <<"ResetColor">> >>)
  \o <<FlushStep>>

----------------------------------------------------------------------------
(* The driver's side of a step *)

Term == [raw |-> raw, pending |-> pending, trace |-> trace]

ApplyStep(tm, s) ==
  CASE s[1] = "queue" -> [tm EXCEPT !.pending = Append(@, s[2])]
    [] s[1] = "flush" -> [tm EXCEPT !.trace = @ \o tm.pending, !.pending = <<>>]
    [] s[1] = "enable_raw_mode" -> [tm EXCEPT !.raw = TRUE, !.trace = Append(@, s)]
    [] s[1] = "disable_raw_mode" -> [tm EXCEPT !.raw = FALSE, !.trace = Append(@, s)]
    [] OTHER -> tm

RECURSIVE RunSteps(_, _, _)
RunSteps(tm, steps, n) ==
  IF n = 0 THEN tm
  ELSE ApplyStep(RunSteps(tm, steps, n - 1), steps[n])

(* faulty variant: a failed step is passed over and the later ones run *)
DoneAll(steps, f) == Len(steps)

(* f = 0: every step succeeds; f > 0: step f fails and `?` returns there *)
Done(steps, f) == IF f = 0 THEN Len(steps) ELSE f - 1

----------------------------------------------------------------------------
(* The caller's thread.  It unwraps every Result (as tests::test_a does),   *)
(* so the first Err ends it.                                               *)

Call(op, arg, steps, f) ==
  LET n == Done(steps, f)
      tm == RunSteps(Term, steps, n)
  IN /\ ~halted
     /\ raw' = tm.raw
     /\ pending' = tm.pending
     /\ trace' = tm.trace
     /\ last' = [op |-> op, ok |-> (f = 0), arg |-> arg,
                 calls |-> SubSeq(steps, 1, n), prev |-> last.op]
     /\ before' = [pending |-> pending, trace |-> trace]
     /\ nops' = nops + 1
     /\ halted' = (f # 0)

New(k, sz, f) ==
  /\ Call("new", <<k>>, NewSteps(k), f)
  /\ sess' = IF f = 0 THEN [has |-> TRUE, k |-> k, w |-> sz[1], h |-> sz[2]] ELSE sess
  /\ newCalls' = IF f = 0 THEN NewSteps(k) ELSE newCalls
  /\ preRaw' = raw

Begin(f) ==
  /\ sess.has
  /\ Call("begin", <<>>, BeginSteps, f)
  /\ UNCHANGED <<sess, preRaw, newCalls>>

(* faulty variant: fin forgets the Session's mode_flags *)
FinClearsFlags(f) ==
  /\ sess.has
  /\ Call("fin", <<>>, FinSteps(sess.k), f)
  /\ sess' = [sess EXCEPT !.k = 0]
  /\ UNCHANGED <<preRaw, newCalls>>

Fin(f) ==
  /\ sess.has
  /\ Call("fin", <<>>, FinSteps(sess.k), f)
  /\ UNCHANGED <<sess, preRaw, newCalls>>

Style(s, f) ==
  /\ sess.has
  /\ Call("style", <<s>>, StyleSteps(s), f)
  /\ UNCHANGED <<sess, preRaw, newCalls>>

Wr(x, y, st, bg, fg, msg, f) ==
  /\ sess.has
  /\ Call("wr", <<x, y, st, bg, fg, msg>>, WrSteps(x, y, st, bg, fg, msg), f)
  /\ UNCHANGED <<sess, preRaw, newCalls>>

WrArgs ==
  { <<0, 0, NamedColor("Black"), NamedColor("White"), "OK">>,
    <<0, 48, RgbStruct(240, 192, 32), RgbStruct(240, 32, 192), "ABC">> }

NoWorker == [pc |-> "none", ev |-> "none", cause |-> "none"]

NoSession == [has |-> FALSE, k |-> 0, w |-> 0, h |-> 0]

Init ==
  /\ raw = FALSE
  /\ pending = <<>>
  /\ trace = <<>>
  /\ sess = NoSession
  /\ last = [op |-> "none", ok |-> TRUE, arg |-> <<>>, calls |-> <<>>, prev |-> "none"]
  /\ preRaw = FALSE
  /\ newCalls = <<>>
  /\ before = [pending |-> <<>>, trace |-> <<>>]
  /\ nops = 0
  /\ halted = FALSE
  /\ script = <<>>
  /\ worker = NoWorker
  /\ evq = <<>>
  /\ chan = <<>>
  /\ rx = "none"
  /\ tx = "none"
  /\ got = <<>>
  /\ rlog = <<>>
  /\ plog = <<>>
  /\ slog = <<>>
  /\ arrived = 0
  /\ csent = 0
  /\ lastRecv = "none"

(* Any caller: the Session's operations in any order *)

AnyNew == \E k \in Flags, sz \in Sizes : \E f \in 0..Len(NewSteps(k)) : New(k, sz, f)
AnyBegin == \E f \in 0..Len(BeginSteps) : Begin(f)
AnyFin == \E f \in 0..Len(FinSteps(sess.k)) : Fin(f)
AnyStyle == \E s \in Attributes : \E f \in 0..Len(StyleSteps(s)) : Style(s, f)
AnyWr ==
  \E a \in WrArgs, st \in StyleBits :
    \E f \in 0..Len(WrSteps(a[1], a[2], st, a[3], a[4], a[5])) :
      Wr(a[1], a[2], st, a[3], a[4], a[5], f)

CallNew == nops < MaxOps /\ AnyNew /\ UNCHANGED <<script, feedVars>>
CallBegin == nops < MaxOps /\ AnyBegin /\ UNCHANGED <<script, feedVars>>
CallFin == nops < MaxOps /\ AnyFin /\ UNCHANGED <<script, feedVars>>
CallStyle == nops < MaxOps /\ AnyStyle /\ UNCHANGED <<script, feedVars>>
CallWr == nops < MaxOps /\ AnyWr /\ UNCHANGED <<script, feedVars>>

Next == CallNew \/ CallBegin \/ CallFin \/ CallStyle \/ CallWr

Spec == Init /\ [][Next]_vars

(* The scripted caller, tests::test_a: new, begin, wr (once or more), fin *)

Noted == script' = Append(script, <<last'.op, last'.arg>>)

TestNew == script = <<>> /\ AnyNew /\ Noted /\ UNCHANGED feedVars
TestBegin == last.op = "new" /\ AnyBegin /\ Noted /\ UNCHANGED feedVars
TestWr ==
  /\ last.op \in {"begin", "wr"}
  /\ Len(script) < 2 + MaxWr
  /\ AnyWr
  /\ Noted
  /\ UNCHANGED feedVars
TestFin == last.op = "wr" /\ AnyFin /\ Noted /\ UNCHANGED feedVars

NextTestA == TestNew \/ TestBegin \/ TestWr \/ TestFin

SpecTestA == Init /\ [][NextTestA]_vars

----------------------------------------------------------------------------
(* prepare_thread and its worker.  The worker's loop is poll, then (when   *)
(* an event is ready) read, then send; each expect panics on Err, which    *)
(* ends the thread and drops its clone of the Sender.                      *)

(* faulty variant: the worker reads whatever the poll returned *)
AfterPollAlwaysRead(res) == IF res = "err" THEN "dead" ELSE "read"

(* faulty variant: the worker gives up when a poll finds no event *)
AfterPollStopWhenIdle(res) == IF res = "ready" THEN "read" ELSE "dead"

(* if !event::poll(ms).expect("poll") { () } else { read ... } *)
AfterPoll(res) ==
  CASE res = "err" -> "dead"
    [] res = "none" -> "poll"
    [] res = "ready" -> "read"

(* faulty variant: a failed read is skipped and the loop goes on *)
AfterReadRetry(res) == IF res = "err" THEN "poll" ELSE "send"

(* event::read().expect("read") *)
AfterRead(res) == IF res = "err" THEN "dead" ELSE "send"

(* faulty variant: a failed send is ignored and the loop goes on *)
AfterSendIgnore(ok) == "poll"

(* tx.send(ev).expect("send") *)
AfterSend(ok) == IF ok THEN "poll" ELSE "dead"

(* faulty variant: the channel hands out the newest message first *)
ChannelSendLifo(q, m) == <<m>> \o q

(* mpsc::channel(): unbounded, a send appends *)
ChannelSend(q, m) == Append(q, m)

(* faulty variant: the Sender stays inside, only the Receiver is returned *)
ReturnedRxOnly == [tx |-> "none", rx |-> "held"]

(* Ok((tx, rx)): the caller is returned the Sender and the Receiver; the   *)
(* worker's closure owns tx.clone()                                        *)
ReturnedEnds == [tx |-> "held", rx |-> "held"]

WorkerRuns == worker.pc \in {"poll", "read", "send"}

(* faulty variant: only the worker's clone keeps the channel connected *)
SendersAliveInWorker == WorkerRuns

SendersAlive == tx = "held" \/ WorkerRuns

PrepareThread ==
  /\ sess.has
  /\ worker.pc = "none"
  /\ Call("prepare_thread", <<>>, <<>>, 0)
  /\ worker' = [pc |-> "poll", ev |-> "none", cause |-> "none"]
  /\ chan' = <<>>
  /\ rx' = ReturnedEnds.rx
  /\ tx' = ReturnedEnds.tx
  /\ UNCHANGED <<sess, preRaw, newCalls, script, evq, got, rlog, plog, slog,
                 arrived, csent, lastRecv>>

WorkerPoll ==
  /\ worker.pc = "poll"
  /\ Len(plog) < MaxPolls
  /\ \E res \in {"err", IF evq = <<>> THEN "none" ELSE "ready"} :
       /\ worker' = [worker EXCEPT !.pc = AfterPoll(res),
                                   !.cause = IF res = "err" THEN "poll" ELSE @]
       /\ plog' = IF res = "err" THEN plog ELSE Append(plog, res = "ready")
  /\ UNCHANGED <<termVars, sess, preRaw, newCalls, callVars, script, evq, chan,
                 rx, tx, got, rlog, slog, arrived, csent, lastRecv>>

WorkerRead ==
  /\ worker.pc = "read"
  /\ evq # <<>>
  /\ \E res \in {"ok", "err"} :
       /\ worker' = [pc |-> AfterRead(res),
                     ev |-> IF res = "ok" THEN Head(evq) ELSE "none",
                     cause |-> IF res = "err" THEN "read" ELSE worker.cause]
       /\ evq' = IF res = "ok" THEN Tail(evq) ELSE evq
       /\ rlog' = IF res = "ok" THEN Append(rlog, Head(evq)) ELSE rlog
  /\ UNCHANGED <<termVars, sess, preRaw, newCalls, callVars, script, chan, rx,
                 tx, got, plog, slog, arrived, csent, lastRecv>>

(* faulty variant: the worker prints the event it sends *)
WorkerSendEcho ==
  /\ worker.pc = "send"
  /\ LET ok == rx = "held"
     IN /\ worker' = [pc |-> AfterSend(ok), ev |-> "none",
                      cause |-> IF ok THEN worker.cause ELSE "send"]
        /\ chan' = IF ok THEN ChannelSend(chan, [src |-> "worker", ev |-> worker.ev])
                   ELSE chan
        /\ slog' = IF ok THEN Append(slog, [ev |-> worker.ev, at |-> Len(plog)])
                   ELSE slog
  /\ pending' = Append(pending, <<"Print", worker.ev>>)
  /\ UNCHANGED <<raw, trace, sess, preRaw, newCalls, callVars, script, evq, rx,
                 tx, got, rlog, plog, arrived, csent, lastRecv>>

WorkerSend ==
  /\ worker.pc = "send"
  /\ LET ok == rx = "held"
     IN /\ worker' = [pc |-> AfterSend(ok), ev |-> "none",
                      cause |-> IF ok THEN worker.cause ELSE "send"]
        /\ chan' = IF ok THEN ChannelSend(chan, [src |-> "worker", ev |-> worker.ev])
                   ELSE chan
        /\ slog' = IF ok THEN Append(slog, [ev |-> worker.ev, at |-> Len(plog)])
                   ELSE slog
  /\ UNCHANGED <<termVars, sess, preRaw, newCalls, callVars, script, evq, rx,
                 tx, got, rlog, plog, arrived, csent, lastRecv>>

(* The terminal's user: an input event arrives at the driver *)
Input ==
  /\ arrived < MaxEvents
  /\ \E e \in Events : evq' = Append(evq, e)
  /\ arrived' = arrived + 1
  /\ UNCHANGED <<termVars, sess, preRaw, newCalls, callVars, script, worker,
                 chan, rx, tx, got, rlog, plog, slog, csent, lastRecv>>

(* The caller's use of the pair it was returned *)
Recv ==
  /\ ~halted
  /\ rx = "held"
  /\ IF chan # <<>>
     THEN /\ got' = Append(got, Head(chan))
          /\ chan' = Tail(chan)
          /\ lastRecv' = "event"
     ELSE /\ lastRecv' = IF SendersAlive THEN "Empty" ELSE "Disconnected"
          /\ UNCHANGED <<got, chan>>
  /\ UNCHANGED <<termVars, sess, preRaw, newCalls, callVars, script, worker,
                 evq, rx, tx, rlog, plog, slog, arrived, csent>>

DropRx ==
  /\ ~halted
  /\ rx = "held"
  /\ rx' = "dropped"
  /\ chan' = <<>>
  /\ UNCHANGED <<termVars, sess, preRaw, newCalls, callVars, script, worker,
                 evq, tx, got, rlog, plog, slog, arrived, csent, lastRecv>>

DropTx ==
  /\ ~halted
  /\ tx = "held"
  /\ tx' = "dropped"
  /\ UNCHANGED <<termVars, sess, preRaw, newCalls, callVars, script, worker,
                 evq, chan, rx, got, rlog, plog, slog, arrived, csent, lastRecv>>

CallerSend ==
  /\ ~halted
  /\ tx = "held"
  /\ csent < MaxCallerSends
  /\ csent' = csent + 1
  /\ \E e \in Events :
       chan' = IF rx = "held" THEN ChannelSend(chan, [src |-> "caller", ev |-> e])
               ELSE chan
  /\ UNCHANGED <<termVars, sess, preRaw, newCalls, callVars, script, worker,
                 evq, rx, tx, got, rlog, plog, slog, arrived, lastRecv>>

CallPrepareThread == nops < MaxOps /\ PrepareThread

(* The feed is started on a Session constructed as in tests::test_a:       *)
(* PrayTerm::new(2) on an 80 x 50 terminal, every driver call succeeding.  *)
InitFeed ==
  LET tm == RunSteps([raw |-> FALSE, pending |-> <<>>, trace |-> <<>>],
                     NewSteps(2), Len(NewSteps(2)))
  IN /\ raw = tm.raw
     /\ pending = tm.pending
     /\ trace = tm.trace
     /\ sess = [has |-> TRUE, k |-> 2, w |-> 80, h |-> 50]
     /\ last = [op |-> "new", ok |-> TRUE, arg |-> <<2>>, calls |-> NewSteps(2),
                prev |-> "none"]
     /\ preRaw = FALSE
     /\ newCalls = NewSteps(2)
     /\ before = [pending |-> <<>>, trace |-> <<>>]
     /\ nops = 1
     /\ halted = FALSE
     /\ script = <<>>
     /\ worker = NoWorker
     /\ evq = <<>>
     /\ chan = <<>>
     /\ rx = "none"
     /\ tx = "none"
     /\ got = <<>>
     /\ rlog = <<>>
     /\ plog = <<>>
     /\ slog = <<>>
     /\ arrived = 0
     /\ csent = 0
     /\ lastRecv = "none"

NextFeed ==
  \/ CallPrepareThread
  \/ WorkerPoll
  \/ WorkerRead
  \/ WorkerSend
  \/ Input
  \/ Recv
  \/ DropRx
  \/ DropTx
  \/ CallerSend

SpecFeed == InitFeed /\ [][NextFeed]_vars

----------------------------------------------------------------------------
(* The operations of a constructed Session (that of tests::test_a), in any *)
(* order, each with any of its driver calls failing                        *)

NextOps ==
  \/ CallPrepareThread
  \/ CallBegin
  \/ CallStyle
  \/ CallWr
  \/ CallFin

SpecOps == InitFeed /\ [][NextOps]_vars

----------------------------------------------------------------------------
(* The Session's operations on the caller's thread while the worker runs.  *)
(* The worker's loop has no exit of its own: here it polls without a bound *)
(* and the log of its polls starts again when it holds MaxPolls entries.   *)

WorkerPollOn ==
  /\ worker.pc = "poll"
  /\ \E res \in {"err", IF evq = <<>> THEN "none" ELSE "ready"} :
       /\ worker' = [worker EXCEPT !.pc = AfterPoll(res),
                                   !.cause = IF res = "err" THEN "poll" ELSE @]
       /\ plog' = IF res = "err" THEN plog
                  ELSE IF Len(plog) < MaxPolls THEN Append(plog, res = "ready")
                  ELSE <<res = "ready">>
  /\ UNCHANGED <<termVars, sess, preRaw, newCalls, callVars, script, evq, chan,
                 rx, tx, got, rlog, slog, arrived, csent, lastRecv>>

WorkerStep == WorkerPollOn \/ WorkerRead \/ WorkerSend

(* The caller: tests::test_a with the feed started after new and a style  *)
(* call at will before wr, every call of the driver's sink succeeding      *)
LivePrepare == last.op = "new" /\ PrepareThread
LiveBegin ==
  /\ last.op = "prepare_thread"
  /\ Begin(0)
  /\ UNCHANGED <<script, feedVars>>
LiveStyle ==
  /\ last.op = "begin"
  /\ \E s \in Attributes : Style(s, 0)
  /\ UNCHANGED <<script, feedVars>>
LiveWr ==
  /\ last.op \in {"begin", "style"}
  /\ \E a \in WrArgs : Wr(a[1], a[2], 3, a[3], a[4], a[5], 0)
  /\ UNCHANGED <<script, feedVars>>
LiveFin == last.op = "wr" /\ Fin(0) /\ UNCHANGED <<script, feedVars>>

NextLive ==
  \/ LivePrepare
  \/ LiveBegin
  \/ LiveStyle
  \/ LiveWr
  \/ LiveFin
  \/ WorkerPollOn
  \/ WorkerRead
  \/ WorkerSend
  \/ Input
  \/ DropRx

(* the operating system schedules the worker's thread again and again *)
SpecLive == InitFeed /\ [][NextLive]_vars /\ WF_vars(WorkerStep)

----------------------------------------------------------------------------
(* Reading a call's steps and the terminal's trace *)

IsQueue(s) == s[1] = "queue"
IsFlush(s) == s[1] = "flush"
CmdOf(s) == s[2]
Queued(calls) ==
  LET q == SelectSeq(calls, IsQueue) IN [i \in 1..Len(q) |-> CmdOf(q[i])]
Flushed(calls) == \E i \in 1..Len(calls) : IsFlush(calls[i])

IsPrefix(p, q) == Len(p) <= Len(q) /\ SubSeq(q, 1, Len(p)) = p

Reverse(seq) == [i \in 1..Len(seq) |-> seq[Len(seq) + 1 - i]]

SwitchesOn(s) ==
  \/ s[1] = "enable_raw_mode"
  \/ IsQueue(s) /\ s[2][1] \in {"EnterAlternateScreen", "EnableMouseCapture"}
SwitchesOff(s) ==
  \/ s[1] = "disable_raw_mode"
  \/ IsQueue(s) /\ s[2][1] \in {"LeaveAlternateScreen", "DisableMouseCapture"}
ModeOf(s) ==
  IF s[1] \in {"enable_raw_mode", "disable_raw_mode"} THEN "raw"
  ELSE IF s[2][1] \in {"EnterAlternateScreen", "LeaveAlternateScreen"} THEN "alt"
  ELSE "mouse"
ModesOn(calls) ==
  LET q == SelectSeq(calls, SwitchesOn) IN [i \in 1..Len(q) |-> ModeOf(q[i])]
ModesOff(calls) ==
  LET q == SelectSeq(calls, SwitchesOff) IN [i \in 1..Len(q) |-> ModeOf(q[i])]

(* pattern: a sequence of sets of trace entries; it matches when the trace *)
(* holds one entry of each set, in the pattern's order                     *)
RECURSIVE Occurs(_, _)
Occurs(pattern, tr) ==
  IF pattern = <<>> THEN TRUE
  ELSE IF tr = <<>> THEN FALSE
  ELSE IF Head(tr) \in Head(pattern) THEN Occurs(Tail(pattern), Tail(tr))
  ELSE Occurs(pattern, Tail(tr))

NewThenFin == last.op = "fin" /\ last.ok /\ last.prev = "new"

----------------------------------------------------------------------------
(* C1 as stated: after new(k) immediately followed by fin(), every driver  *)
(* call succeeding, raw mode has the value it had before new(k).           *)
C1_RawModeRestored == NewThenFin => raw = preRaw

(* C1, amended: after new(k) immediately followed by fin(), every driver   *)
(* call succeeding, raw mode is disabled; that is the value it had before  *)
(* new(k) exactly when raw mode was disabled before new(k).                *)
C1_RawModeDisabled ==
  NewThenFin => /\ raw = FALSE
                /\ (raw = preRaw) <=> (preRaw = FALSE)

C1_Witness == NewThenFin /\ preRaw = FALSE /\ sess.k = 6

(* C2: a successful fin() switches off exactly the modes that the new(k)   *)
(* of its Session switched on, in the reverse order (new: raw mode, then   *)
(* alternate screen, then mouse capture), after showing the cursor, and    *)
(* whatever begin/style/wr calls came in between.                          *)
C2_FinMirrorsNew ==
  last.op = "fin" /\ last.ok =>
    /\ ModesOn(newCalls) \in { <<"raw">>, <<"raw", "alt">>, <<"raw", "mouse">>,
                               <<"raw", "alt", "mouse">> }
    /\ ModesOff(last.calls) = Reverse(ModesOn(newCalls))
    /\ Len(Queued(last.calls)) = 2 + Len(ModesOn(newCalls)) - 1
    /\ Queued(last.calls)[1][1] = "SetCursorStyle"
    /\ Queued(last.calls)[2] = <<"Show">>
    /\ trace = (before.trace \o before.pending \o Queued(last.calls))
                 \o << <<"disable_raw_mode">> >>
    /\ pending = <<>>

C2_Witness ==
  /\ last.op = "fin" /\ last.ok
  /\ last.prev \in {"begin", "style", "wr"}
  /\ ModesOn(newCalls) = <<"raw", "alt", "mouse">>

(* The scenario of C3, run by the scripted caller, every call returning Ok *)
ScenarioDone ==
  /\ script = << <<"new", <<6>> >>,
                 <<"begin", <<>> >>,
                 <<"wr", <<0, 0, 0, NamedColor("Black"), NamedColor("White"), "OK">> >>,
                 <<"fin", <<>> >> >>
  /\ last.ok

SetColors ==
  { <<"SetBackgroundColor", NamedColor("Black")>>,
    <<"SetForegroundColor", NamedColor("White")>> }

(* C3 as stated: the scenario's trace holds, in this order, enter-         *)
(* alternate-screen, enable-mouse-capture, clear-screen, hide-cursor,      *)
(* move-to(0,0), set-colors, print "OK", reset-color, show-cursor,         *)
(* disable-mouse-capture, leave-alternate-screen, disable-raw-mode.        *)
C3_ScenarioOrderAsStated ==
  ScenarioDone =>
    Occurs(<< {<<"EnterAlternateScreen">>}, {<<"EnableMouseCapture">>},
              {<<"Clear", "All">>}, {<<"Hide">>},
              {<<"MoveTo", 0, 0>>}, SetColors, {<<"Print", "OK">>},
              {<<"ResetColor">>}, {<<"Show">>}, {<<"DisableMouseCapture">>},
              {<<"LeaveAlternateScreen">>}, {<<"disable_raw_mode">>} >>, trace)

(* C3, amended: the same scenario returns no error and its trace holds the *)
(* same calls in the same order, except that hide-cursor comes before      *)
(* clear-screen.                                                           *)
C3_ScenarioOrder ==
  ScenarioDone =>
    Occurs(<< {<<"EnterAlternateScreen">>}, {<<"EnableMouseCapture">>},
              {<<"Hide">>}, {<<"Clear", "All">>},
              {<<"MoveTo", 0, 0>>}, SetColors, {<<"Print", "OK">>},
              {<<"ResetColor">>}, {<<"Show">>}, {<<"DisableMouseCapture">>},
              {<<"LeaveAlternateScreen">>}, {<<"disable_raw_mode">>} >>, trace)

C3_Witness == ScenarioDone /\ ~halted /\ Len(trace) >= 12

WrDone == last.op = "wr" /\ last.ok
StyleBitsOf(arg) == arg[3]
Bit(n, i) == (n \div (2 ^ i)) % 2
QueuesAttribute(calls, a) ==
  \E j \in 1..Len(calls) : calls[j] = QueueStep(<<"SetAttribute", a>>)
Attrs(calls) ==
  LET q == Queued(calls)
      IsAttr(c) == c[1] = "SetAttribute"
  IN SelectSeq(q, IsAttr)

(* C4: a wr call queues attribute i of <<Bold, Italic>> if and only if bit *)
(* i of its st is set: Bold iff bit 0, Italic iff bit 1.                   *)
C4_BitSelectsAttribute ==
  WrDone =>
    /\ QueuesAttribute(last.calls, "Bold") <=> (Bit(StyleBitsOf(last.arg), 0) = 1)
    /\ QueuesAttribute(last.calls, "Italic") <=> (Bit(StyleBitsOf(last.arg), 1) = 1)

(* C5: a wr call with st queues the same attributes as a wr call with      *)
(* st AND 3: bits 2 and higher change nothing.                             *)
C5_HighBitsIgnored ==
  WrDone =>
    LET a == last.arg
    IN Attrs(last.calls)
         = Attrs(WrSteps(a[1], a[2], BitAnd(a[3], 3), a[4], a[5], a[6]))

C5_Witness == WrDone /\ StyleBitsOf(last.arg) >= 4 /\ Attrs(last.calls) # <<>>

(* C6: a successful wr call queues, after its attribute changes, MoveTo(x, *)
(* y), SetBackgroundColor, SetForegroundColor, Print(msg), ResetColor in   *)
(* that order and flushes: on return nothing is pending, and the terminal  *)
(* has received what earlier calls left pending followed by this call's    *)
(* commands.                                                               *)
C6_WrQueuesThenFlushes ==
  WrDone =>
    LET q == Queued(last.calls)
        n == Len(q)
        a == last.arg
    IN /\ n >= 5
       /\ \A j \in 1..(n - 5) : q[j][1] = "SetAttribute"
       /\ q[n - 4] = <<"MoveTo", a[1], a[2]>>
       /\ q[n - 3][1] = "SetBackgroundColor"
       /\ q[n - 2][1] = "SetForegroundColor"
       /\ q[n - 1] = <<"Print", a[6]>>
       /\ q[n] = <<"ResetColor">>
       /\ pending = <<>>
       /\ trace = before.trace \o before.pending \o q

C6_Witness == WrDone /\ last.prev = "style" /\ before.pending # <<>>

IsSinkOutput(c) == c[1] \notin {"enable_raw_mode", "disable_raw_mode"}
SinkOut(tr) == SelectSeq(tr, IsSinkOutput)

(* C7: style only appends its attribute change to the sink's pending       *)
(* commands and the terminal receives nothing; what is pending reaches the *)
(* terminal exactly at the next call that flushes (wr, begin, fin; new's   *)
(* execute! flushes the same sink), ahead of that call's own commands, and *)
(* a call that does not get to a flush leaves it pending.                  *)
C7_StyleIsDeferred ==
  /\ last.op = "style" /\ last.ok =>
       /\ ~Flushed(last.calls)
       /\ pending = Append(before.pending, <<"SetAttribute", last.arg[1]>>)
  /\ SinkOut(trace) \o pending
       = SinkOut(before.trace) \o before.pending \o Queued(last.calls)
  /\ Flushed(last.calls) =>
       Len(SinkOut(trace)) >= Len(SinkOut(before.trace)) + Len(before.pending)
  /\ ~Flushed(last.calls) => SinkOut(trace) = SinkOut(before.trace)
  /\ last.op \in {"wr", "begin", "fin"} /\ last.ok => Flushed(last.calls)

C7_Witness ==
  /\ last.op \in {"wr", "begin", "fin"} /\ last.ok /\ last.prev = "style"
  /\ before.pending = << <<"SetAttribute", "Bold">> >>
  /\ trace[Len(before.trace) + 1] = <<"SetAttribute", "Bold">>

----------------------------------------------------------------------------
(* Reading the feed *)

FromWorker(msgs) ==
  LET IsWorkers(m) == m.src = "worker"
      q == SelectSeq(msgs, IsWorkers)
  IN [i \in 1..Len(q) |-> q[i].ev]
InHand == IF worker.pc = "send" THEN <<worker.ev>> ELSE <<>>
NoneReady(pl) == \A i \in 1..Len(pl) : ~pl[i]
ReadyPolls(pl) == Cardinality({i \in 1..Len(pl) : pl[i]})

(* C8: the events the receiver obtains from the worker are the events the  *)
(* worker read, in the order it read them: while the Receiver is held, the *)
(* events received, then those still in the channel, then the one the      *)
(* worker is about to send, are exactly the events read, none reordered,   *)
(* duplicated, merged or dropped.                                          *)
C8_Fifo ==
  /\ IsPrefix(FromWorker(got), rlog)
  /\ rx = "held" => FromWorker(got) \o FromWorker(chan) \o InHand = rlog

C8_Witness ==
  /\ rx = "held"
  /\ WorkerRuns
  /\ FromWorker(got) = <<"key", "key">>
  /\ rlog = <<"key", "key">>

(* C9: when the polls report no event N times and then one ready event,    *)
(* the worker sends nothing before the (N+1)-th poll, and once it is back  *)
(* at its poll it has sent exactly one Event, the one it read, after N+1   *)
(* polls.                                                                  *)
C9_OneSendAfterPolls ==
  /\ NoneReady(plog) => slog = <<>>
  /\ \A N \in 0..(MaxPolls - 1) :
       Len(plog) = N + 1 /\ NoneReady(SubSeq(plog, 1, N)) /\ plog[N + 1] =>
         /\ Len(slog) <= 1
         /\ Len(slog) = 1 => slog[1] = [ev |-> rlog[1], at |-> N + 1]
         /\ worker.pc = "poll" =>
              /\ Len(slog) = 1
              /\ rx = "held" => FromWorker(got) \o FromWorker(chan) = <<rlog[1]>>

C9_Witness ==
  /\ plog = <<FALSE, FALSE, TRUE>>
  /\ worker.pc = "poll"
  /\ Len(slog) = 1
  /\ rx = "held"

(* C10: when a read fails after a poll that reported readiness, the worker *)
(* ends without having an event to send for that read, and from then on it *)
(* polls, reads and sends nothing.                                         *)
C10_ReadFailureEndsWorker ==
  [][ /\ worker'.cause = "read" =>
           /\ worker'.pc = "dead"
           /\ worker'.ev = "none"
           /\ Len(rlog') + 1 = ReadyPolls(plog')
           /\ Len(slog') <= Len(rlog')
      /\ worker.pc = "dead" =>
           /\ worker' = worker
           /\ plog' = plog
           /\ rlog' = rlog
           /\ slog' = slog
           /\ FromWorker(got') \o FromWorker(chan') = FromWorker(got) \o FromWorker(chan)
              \/ rx' = "dropped"
    ]_vars

C10_Witness ==
  /\ worker.cause = "read"
  /\ worker.pc = "dead"
  /\ plog = <<TRUE, TRUE>>
  /\ slog = << [ev |-> "key", at |-> 1] >>
  /\ evq # <<>>
  /\ FromWorker(got) = <<"key">>

(* C11: when a poll fails, or a send fails because the Receiver has been   *)
(* dropped, the worker ends at that step, and from then on it polls, reads *)
(* and sends nothing; nothing starts it again.                             *)
C11_PollOrSendFailureEndsWorker ==
  [][ /\ worker'.cause = "poll" /\ worker.cause # "poll" =>
           /\ worker.pc = "poll"
           /\ worker'.pc = "dead"
           /\ <<plog', rlog', slog', chan'>> = <<plog, rlog, slog, chan>>
      /\ worker.pc = "send" /\ rx = "dropped" /\ worker' # worker =>
           /\ worker'.cause = "send"
           /\ worker'.pc = "dead"
           /\ <<plog', rlog', slog', chan'>> = <<plog, rlog, slog, chan>>
      /\ worker'.cause = "send" => worker'.pc = "dead" /\ rx' = "dropped"
      /\ worker.pc = "dead" =>
           /\ worker'.pc = "dead"
           /\ worker'.cause = worker.cause
           /\ <<plog', rlog', slog'>> = <<plog, rlog, slog>>
    ]_vars

C11_Witness ==
  /\ worker.cause = "send"
  /\ worker.pc = "dead"
  /\ rx = "dropped"
  /\ Len(rlog) = 2
  /\ Len(slog) = 1

CallerMessages(msgs) ==
  LET IsCallers(m) == m.src = "caller" IN SelectSeq(msgs, IsCallers)

CallerStep == nops' # nops \/ rx' # rx

(* C13, first part: the worker has no cancellation: no operation of the    *)
(* Session (fin included) and no drop by the caller changes the worker's   *)
(* state; it ends only in a step of its own, by a failed poll, read or     *)
(* send.                                                                   *)
C13_OnlyFailuresEndWorker ==
  [][ /\ CallerStep /\ worker.pc # "none" => worker' = worker
      /\ worker'.pc = "dead" /\ worker.pc # "dead" =>
           /\ ~CallerStep
           /\ worker.pc = worker'.cause
           /\ worker.cause = "none"
      /\ worker'.cause = "send" /\ worker.cause # "send" => rx = "dropped"
      /\ worker.pc = "send" /\ rx = "dropped" /\ worker' # worker =>
           worker'.pc = "dead"
    ]_vars

(* C13 as stated: the worker is never stopped by the caller, and once the  *)
(* caller has dropped the Receiver the worker eventually ends, whatever    *)
(* the driver reports afterwards.                                          *)
C13_DropEndsWorker ==
  /\ C13_OnlyFailuresEndWorker
  /\ (rx = "dropped") ~> (worker.pc = "dead")

(* C13, amended: the worker is never stopped by the caller; once the       *)
(* caller has dropped the Receiver the worker ends at its next send, that  *)
(* is, eventually when it holds an event or the driver has one ready (or   *)
(* reports an error); while the driver reports no event it polls on.       *)
C13_DropEndsWorkerAtNextSend ==
  /\ C13_OnlyFailuresEndWorker
  /\ (rx = "dropped" /\ (evq # <<>> \/ worker.pc \in {"read", "send"}))
        ~> (worker.pc = "dead")
  /\ [][ rx = "dropped" /\ worker.pc = "poll" /\ evq = <<>> /\ plog' # plog =>
           worker'.pc = "poll" ]_vars

C13_Witness ==
  /\ last.op = "fin"
  /\ last.ok
  /\ rx = "dropped"
  /\ worker.pc = "poll"
  /\ evq = <<>>
  /\ arrived = MaxEvents
  /\ Len(plog) = MaxPolls

FailedStep(steps, calls) == steps[Len(calls) + 1]

(* C15: new does not roll back: when entering the alternate screen or      *)
(* enabling mouse capture fails, new returns an error and no Session, and  *)
(* raw mode stays enabled.                                                 *)
C15_FailedNewKeepsRawMode ==
  [][ /\ last'.op = "new"
      /\ nops' # nops
      /\ ~last'.ok
      /\ LET s == FailedStep(NewSteps(last'.arg[1]), last'.calls)
         IN IsQueue(s) \/ IsFlush(s)
      => /\ raw'
         /\ sess' = sess
         /\ halted'
         /\ ~\E i \in 1..Len(trace') : trace'[i][1] = "disable_raw_mode" /\ i > Len(trace)
    ]_vars

C15_Witness ==
  /\ last.op = "new"
  /\ ~last.ok
  /\ last.arg = <<3>>
  /\ FailedStep(NewSteps(3), last.calls) = FlushStep
  /\ Len(last.calls) = 5
  /\ raw
  /\ ~preRaw
  /\ ~sess.has

Range(seq) == { seq[i] : i \in 1..Len(seq) }

(* the modes that mode_flags k selects besides raw mode: the three low     *)
(* bits of k are read; 0 selects neither, 1 the alternate screen only,     *)
(* 2 mouse capture only, any other value both                              *)
Selects(k) ==
  CASE k % 8 = 0 -> {}
    [] k % 8 = 1 -> {"alt"}
    [] k % 8 = 2 -> {"mouse"}
    [] OTHER -> {"alt", "mouse"}

(* C16: the alternate screen and mouse capture are chosen independently by *)
(* mode_flags: some value selects neither, some the alternate screen only, *)
(* some mouse capture only, some both; and a successful fin switches off   *)
(* what the new of its Session had chosen.                                 *)
C16_ModesChosenIndependently ==
  /\ \A c \in SUBSET {"alt", "mouse"} :
       \E k \in Flags : Range(ModesOn(NewSteps(k))) = c \cup {"raw"}
  /\ last.op = "new" /\ last.ok =>
       /\ Range(ModesOn(last.calls)) = Selects(last.arg[1]) \cup {"raw"}
       /\ sess.k = last.arg[1]
  /\ last.op = "fin" /\ last.ok =>
       /\ Range(ModesOff(last.calls)) = Selects(sess.k) \cup {"raw"}
       /\ Range(ModesOff(last.calls)) = Range(ModesOn(newCalls))

C16_Witness ==
  /\ last.op = "fin"
  /\ last.ok
  /\ sess.k = 1
  /\ ModesOn(newCalls) = <<"raw", "alt">>
  /\ ModesOff(last.calls) = <<"alt", "raw">>

WorkerMoves ==
  \/ worker' # worker /\ worker.pc # "none"
  \/ <<plog', rlog', slog'>> # <<plog, rlog, slog>>

(* C17: the sink is written only by the Session's operations on the        *)
(* caller's thread: in every interleaving, no step of the worker changes   *)
(* the sink's pending commands or the terminal's output, and whatever      *)
(* changes them is one call of the caller.                                 *)
C17_WorkerLeavesSinkAlone ==
  [][ /\ WorkerMoves => <<pending', trace', raw'>> = <<pending, trace, raw>>
      /\ <<pending', trace', raw'>> # <<pending, trace, raw>> =>
           /\ nops' = nops + 1
           /\ last'.op \in {"begin", "style", "wr", "fin"}
           /\ ~WorkerMoves
    ]_vars

C17_Witness ==
  /\ last.op = "style"
  /\ pending = << <<"SetAttribute", "Bold">> >>
  /\ worker.pc = "send"
  /\ Len(slog) = 1
  /\ Len(rlog) = 2

(* C18: mode_flags, width and height are fixed when the Session is         *)
(* constructed: begin, style, wr, fin and prepare_thread leave them as     *)
(* they are, whether the call succeeds or fails.                           *)
C18_FieldsFixed ==
  [][ /\ nops' = nops + 1
      /\ last'.op \in {"begin", "style", "wr", "fin", "prepare_thread"}
      => /\ sess'.k = sess.k
         /\ sess'.w = sess.w
         /\ sess'.h = sess.h
         /\ sess'.has = sess.has
    ]_vars

C18_Witness ==
  /\ last.op = "fin"
  /\ ~last.ok
  /\ last.prev = "prepare_thread"
  /\ last.calls # <<>>
  /\ sess = [has |-> TRUE, k |-> 2, w |-> 80, h |-> 50]

(* (st AND 2) XOR i is not 0 exactly when st AND 2, which is twice bit 1   *)
(* of st, differs from i                                                   *)
XorCheck(st, i) == 2 * Bit(st, 1) # i

(* C19: the check of wr for attribute i (0 Bold, 1 Italic) is XOR-based:   *)
(* the attribute is queued exactly when ((st AND 2) XOR i) is not 0; that  *)
(* is another predicate than (st AND (1 << i)) being not 0.                *)
C19_XorBasedCheck ==
  /\ WrDone =>
       \A i \in 0..1 :
         QueuesAttribute(last.calls, styles[i + 1])
           <=> XorCheck(StyleBitsOf(last.arg), i)
  /\ \E st \in StyleBits, i \in 0..1 : XorCheck(st, i) # (Bit(st, i) = 1)

C19_Witness ==
  /\ WrDone
  /\ StyleBitsOf(last.arg) = 1
  /\ ~QueuesAttribute(last.calls, "Bold")
  /\ QueuesAttribute(last.calls, "Italic")

FinReturned == last'.op = "fin" /\ nops' = nops + 1

(* C20: fin stops at its first failing step and skips the later ones: the  *)
(* driver calls it made are the steps of fin before the failing one, and   *)
(* raw mode is disabled only by a fin all of whose earlier steps           *)
(* succeeded.                                                              *)
C20_FinStopsAtFirstFailure ==
  [][ FinReturned =>
        /\ IsPrefix(last'.calls, FinSteps(sess.k))
        /\ last'.ok <=> last'.calls = FinSteps(sess.k)
        /\ ~last'.ok =>
             /\ raw' = raw
             /\ ~\E i \in 1..Len(last'.calls) : last'.calls[i][1] = "disable_raw_mode"
             /\ halted'
        /\ raw /\ ~raw' => Len(last'.calls) = Len(FinSteps(sess.k))
    ]_vars

C20_Witness ==
  /\ last.op = "fin"
  /\ ~last.ok
  /\ sess.k = 4
  /\ last.calls = SubSeq(FinSteps(4), 1, 4)
  /\ pending = << <<"DisableMouseCapture">> >>
  /\ raw

====
